---- MODULE Spec2Model ----
(***************************************************************************)
(* Christina AI front end (static/js/app.js): the regex-chain Markdown     *)
(* renderer renderMarkdown and the chat client's request handling          *)
(* (sendMessage, resetChat, checkHealth and the DOM event handlers).       *)
(*                                                                         *)
(* A JavaScript string is a sequence of one-character strings.  Every      *)
(* String.prototype.replace(/re/g, ...) pass is a left-to-right scan: at   *)
(* each position the regular expression is tried; on a match the           *)
(* replacement is emitted and the scan resumes after the match, otherwise  *)
(* the character is copied and the scan moves one position on.             *)
(***************************************************************************)
EXTENDS Naturals, Sequences, FiniteSets, TLC

VARIABLES
    text,            \* renderMarkdown's argument
    html,            \* renderMarkdown's return value
    phase,           \* "input" before the call, "rendered" after it
    parts,           \* the pieces the argument was assembled from
    isLoading,       \* state.isLoading
    messages,        \* state.messages (role and content of each entry)
    bubbles,         \* children of elements.messages (role and innerHTML)
    inputValue,      \* elements.messageInput.value
    sendBtnDisabled, \* elements.sendBtn.disabled
    inputDisabled,   \* elements.messageInput.disabled
    overlayVisible,  \* elements.loadingOverlay has class 'visible'
    welcomeHidden,   \* elements.welcomeScreen has class 'hidden'
    online,          \* elements.statusIndicator lacks class 'offline'
    toasts,          \* toasts appended to elements.toastContainer
    chatCalls,       \* sendMessage invocations suspended at an await
    resetCalls,      \* resetChat invocations suspended at an await
    healthCalls,     \* checkHealth invocations suspended at an await
    sent,            \* number of sendMessage executions that issued a request
    lastSend         \* how the latest sendMessage execution ended

renderVars == <<text, html, phase, parts>>

chatVars ==
    <<isLoading, messages, bubbles, inputValue, sendBtnDisabled, inputDisabled,
      overlayVisible, welcomeHidden, online, toasts, chatCalls, resetCalls,
      healthCalls, sent, lastSend>>

vars == <<renderVars, chatVars>>

(***************************************************************************)
(* Character classes of the regular expressions.                           *)
(***************************************************************************)
Digits == {"0", "1", "2", "3", "4", "5", "6", "7", "8", "9"}

Letters ==
    {"a", "b", "c", "d", "e", "f", "g", "h", "i", "j", "k", "l", "m",
     "n", "o", "p", "q", "r", "s", "t", "u", "v", "w", "x", "y", "z",
     "A", "B", "C", "D", "E", "F", "G", "H", "I", "J", "K", "L", "M",
     "N", "O", "P", "Q", "R", "S", "T", "U", "V", "W", "X", "Y", "Z"}

\* \w
WordChars == Letters \cup Digits \cup {"_"}

\* the characters '.' does not match, and before/after which $ and ^ match
LineTerminators == {"\n", "\r"}

\* U+0060, the backtick, which a string of this language cannot hold: the one
\* character that is written by name
Backtick == "BACKTICK"

\* the characters String.prototype.trim removes
WhiteSpace == {" ", "\t", "\n", "\r", "\f"}

(***************************************************************************)
(* The literal pieces of the replacement templates.                        *)
(***************************************************************************)
AmpEntity ==
    <<"&", "a", "m", "p", ";">>
LtEntity ==
    <<"&", "l", "t", ";">>
GtEntity ==
    <<"&", "g", "t", ";">>
Fence ==
    <<Backtick, Backtick, Backtick>>
PreCodeOpen ==
    <<"<", "p", "r", "e", ">", "<", "c", "o", "d", "e", " ", "c", "l", "a", "s", "s", "=", "\"", "l", "a", "n", "g", "u", "a", "g", "e", "-">>
PreCodeMid ==
    <<"\"", ">">>
PreCodeClose ==
    <<"<", "/", "c", "o", "d", "e", ">", "<", "/", "p", "r", "e", ">">>
CodeOpen ==
    <<"<", "c", "o", "d", "e", ">">>
CodeClose ==
    <<"<", "/", "c", "o", "d", "e", ">">>
StrongOpen ==
    <<"<", "s", "t", "r", "o", "n", "g", ">">>
StrongClose ==
    <<"<", "/", "s", "t", "r", "o", "n", "g", ">">>
EmOpen ==
    <<"<", "e", "m", ">">>
EmClose ==
    <<"<", "/", "e", "m", ">">>
H3Open ==
    <<"<", "h", "3", ">">>
H3Close ==
    <<"<", "/", "h", "3", ">">>
H2Open ==
    <<"<", "h", "2", ">">>
H2Close ==
    <<"<", "/", "h", "2", ">">>
H1Open ==
    <<"<", "h", "1", ">">>
H1Close ==
    <<"<", "/", "h", "1", ">">>
AnchorOpen ==
    <<"<", "a", " ", "h", "r", "e", "f", "=", "\"">>
AnchorMid ==
    <<"\"", " ", "t", "a", "r", "g", "e", "t", "=", "\"", "_", "b", "l", "a", "n", "k", "\"", " ", "r", "e", "l", "=", "\"", "n", "o", "o", "p", "e", "n", "e", "r", "\"", ">">>
AnchorClose ==
    <<"<", "/", "a", ">">>
LiOpen ==
    <<"<", "l", "i", ">">>
LiClose ==
    <<"<", "/", "l", "i", ">">>
UlOpen ==
    <<"<", "u", "l", ">">>
UlClose ==
    <<"<", "/", "u", "l", ">">>
QuoteOpen ==
    <<"<", "b", "l", "o", "c", "k", "q", "u", "o", "t", "e", ">">>
QuoteClose ==
    <<"<", "/", "b", "l", "o", "c", "k", "q", "u", "o", "t", "e", ">">>
ParaBreak ==
    <<"<", "/", "p", ">", "<", "p", ">">>
LineBreak ==
    <<"<", "b", "r", ">">>
POpen ==
    <<"<", "p", ">">>
PClose ==
    <<"<", "/", "p", ">">>

(***************************************************************************)
(* Matching primitives.  Positions are 1-based; a match operator returns   *)
(* the position of the last character of the match, 0 when the regular     *)
(* expression does not match at the position.                              *)
(***************************************************************************)
Min(S) == CHOOSE x \in S : \A y \in S : x <= y

Max(S) == CHOOSE x \in S : \A y \in S : x >= y

\* the literal t occurs in s at position i
LitAt(s, i, t) ==
    /\ i >= 1
    /\ i + Len(t) - 1 <= Len(s)
    /\ \A k \in 1..Len(t) : s[i + k - 1] = t[k]

\* first position >= from where the literal t occurs, 0 if none
FindLit(s, from, t) ==
    LET K == {k \in from..Len(s) : LitAt(s, k, t)}
    IN  IF K = {} THEN 0 ELSE Min(K)

\* last position of the longest run of characters of class C that starts at
\* position from (from - 1 when the run is empty): a greedy C*
RunEnd(s, from, C) ==
    LET K == {k \in from..Len(s) : s[k] \notin C}
    IN  IF K = {} THEN Len(s) ELSE Min(K) - 1

\* greedy .* : the run of characters that are not line terminators
DotRunEnd(s, from) ==
    LET K == {k \in from..Len(s) : s[k] \in LineTerminators}
    IN  IF K = {} THEN Len(s) ELSE Min(K) - 1

\* ^ under the m flag
AtLineStart(s, i) == i = 1 \/ s[i - 1] \in LineTerminators

\* lazy (.+?) followed by the literal t: the first position k > from where t
\* occurs with only '.'-characters in from..k-1, 0 if none
LazyDotThen(s, from, t) ==
    LET K == {k \in (from + 1)..(DotRunEnd(s, from) + 1) : LitAt(s, k, t)}
    IN  IF K = {} THEN 0 ELSE Min(K)

\* String.prototype.trim
Trim(s) ==
    LET K == {k \in 1..Len(s) : s[k] \notin WhiteSpace}
    IN  IF K = {} THEN <<>> ELSE SubSeq(s, Min(K), Max(K))

\* concatenation of a sequence of strings
RECURSIVE Flatten(_)
Flatten(ss) == IF ss = <<>> THEN <<>> ELSE Head(ss) \o Flatten(Tail(ss))

\* String.prototype.startsWith
StartsWith(s, t) == LitAt(s, 1, t)

(***************************************************************************)
(* renderMarkdown, stage by stage.                                         *)
(***************************************************************************)

\* .replace(/c/g, rep) for a one-character pattern c
ReplaceChar(s, c, rep) ==
    Flatten([k \in 1..Len(s) |-> IF s[k] = c THEN rep ELSE <<s[k]>>])

\* a faulty escape: the '<' replacement is missing
EscapeHtmlWithoutLt(s) ==
    ReplaceChar(ReplaceChar(s, "&", AmpEntity), ">", GtEntity)

\* a faulty escape: '&' is replaced last, after '<' and '>'
EscapeHtmlAmpLast(s) ==
    ReplaceChar(ReplaceChar(ReplaceChar(s, "<", LtEntity), ">", GtEntity),
                "&", AmpEntity)

\* text.replace(/&/g, '&amp;').replace(/</g, '&lt;').replace(/>/g, '&gt;')
EscapeHtml(s) ==
    ReplaceChar(ReplaceChar(ReplaceChar(s, "&", AmpEntity), "<", LtEntity),
                ">", GtEntity)

\* /```(\w*)\n([\s\S]*?)```/ at i: the position of the \n that ends the
\* opening line, 0 if the opening does not match
FenceNewline(s, i) ==
    IF ~LitAt(s, i, Fence) THEN 0
    ELSE LET j == RunEnd(s, i + 3, WordChars) + 1
         IN  IF j <= Len(s) /\ s[j] = "\n" THEN j ELSE 0

\* the position of the closing ``` of the block opened at i, 0 if none
FenceClose(s, i) ==
    IF FenceNewline(s, i) = 0 THEN 0
    ELSE FindLit(s, FenceNewline(s, i) + 1, Fence)

FencedCodeEnd(s, i) ==
    IF FenceClose(s, i) = 0 THEN 0 ELSE FenceClose(s, i) + 2

\* (_, lang, code) => `<pre><code class="language-${lang}">${code.trim()}</code></pre>`
FencedCodeRepl(s, i) ==
    LET j == FenceNewline(s, i)
        k == FenceClose(s, i)
    IN  PreCodeOpen \o SubSeq(s, i + 3, j - 1) \o PreCodeMid
            \o Trim(SubSeq(s, j + 1, k - 1)) \o PreCodeClose

\* /`([^`]+)`/ at i
InlineCodeEnd(s, i) ==
    IF s[i] = Backtick /\ i + 1 <= Len(s) /\ s[i + 1] # Backtick
    THEN FindLit(s, i + 2, <<Backtick>>)
    ELSE 0

InlineCodeRepl(s, i) ==
    CodeOpen \o SubSeq(s, i + 1, InlineCodeEnd(s, i) - 1) \o CodeClose

\* /\*\*(.+?)\*\*/ at i
BoldEnd(s, i) ==
    IF LitAt(s, i, <<"*", "*">>) /\ LazyDotThen(s, i + 2, <<"*", "*">>) > 0
    THEN LazyDotThen(s, i + 2, <<"*", "*">>) + 1
    ELSE 0

BoldRepl(s, i) ==
    StrongOpen \o SubSeq(s, i + 2, BoldEnd(s, i) - 2) \o StrongClose

\* /\*(.+?)\*/ at i
ItalicEnd(s, i) ==
    IF s[i] = "*" THEN LazyDotThen(s, i + 1, <<"*">>) ELSE 0

ItalicRepl(s, i) ==
    EmOpen \o SubSeq(s, i + 1, ItalicEnd(s, i) - 1) \o EmClose

\* /^prefix(.+)$/m at i, for a literal prefix
LineEnd(s, i, prefix) ==
    IF /\ AtLineStart(s, i)
       /\ LitAt(s, i, prefix)
       /\ DotRunEnd(s, i + Len(prefix)) >= i + Len(prefix)
    THEN DotRunEnd(s, i + Len(prefix))
    ELSE 0

\* 'open$1close'
LineRepl(s, i, prefix, open, close) ==
    open \o SubSeq(s, i + Len(prefix), LineEnd(s, i, prefix)) \o close

\* /\[([^\]]+)\]\(([^)]+)\)/ at i: the position of the ']' that ends the
\* label, 0 if the label part does not match
LinkLabelEnd(s, i) ==
    IF s[i] # "[" THEN 0
    ELSE LET j == FindLit(s, i + 1, <<"]">>)
         IN  IF j >= i + 2 /\ LitAt(s, j + 1, <<"(">>) THEN j ELSE 0

LinkEnd(s, i) ==
    LET j == LinkLabelEnd(s, i)
    IN  IF j = 0 THEN 0
        ELSE LET k == FindLit(s, j + 2, <<")">>)
             IN  IF k >= j + 3 THEN k ELSE 0

\* '<a href="$2" target="_blank" rel="noopener">$1</a>'
LinkRepl(s, i) ==
    LET j == LinkLabelEnd(s, i)
    IN  AnchorOpen \o SubSeq(s, j + 2, LinkEnd(s, i) - 1) \o AnchorMid
            \o SubSeq(s, i + 1, j - 1) \o AnchorClose

\* one iteration of the group of /(<li>.*<\/li>\n?)+/ at p
LiItemEnd(s, p) ==
    IF ~LitAt(s, p, LiOpen) THEN 0
    ELSE LET K == {q \in (p + 4)..(DotRunEnd(s, p + 4) + 1) : LitAt(s, q, LiClose)}
         IN  IF K = {} THEN 0
             ELSE IF LitAt(s, Max(K) + 5, <<"\n">>) THEN Max(K) + 5
             ELSE Max(K) + 4

\* a faulty list wrapper: the group is matched once, /(<li>.*<\/li>\n?)/
ListRunEndSingle(s, i) == LiItemEnd(s, i)

\* /(<li>.*<\/li>\n?)+/ at i: as many iterations as match
RECURSIVE ListRunEnd(_, _)
ListRunEnd(s, i) ==
    LET e == LiItemEnd(s, i)
    IN  IF e = 0 THEN 0
        ELSE IF ListRunEnd(s, e + 1) > 0 THEN ListRunEnd(s, e + 1)
        ELSE e

\* '<ul>$&</ul>'
ListRunRepl(s, i) ==
    UlOpen \o SubSeq(s, i, ListRunEnd(s, i)) \o UlClose

\* /^\d+\. (.+)$/m at i
OrderedEnd(s, i) ==
    LET d == RunEnd(s, i, Digits)
    IN  IF /\ AtLineStart(s, i)
           /\ d >= i
           /\ LitAt(s, d + 1, <<".", " ">>)
           /\ DotRunEnd(s, d + 3) >= d + 3
        THEN DotRunEnd(s, d + 3)
        ELSE 0

OrderedRepl(s, i) ==
    LiOpen \o SubSeq(s, RunEnd(s, i, Digits) + 3, OrderedEnd(s, i)) \o LiClose

\* /\n\n/ and /\n/ at i
LitEnd(s, i, t) == IF LitAt(s, i, t) THEN i + Len(t) - 1 ELSE 0

\* the regular expression of a stage, tried at position i
MatchEnd(stage, s, i) ==
    CASE stage = "fence" -> FencedCodeEnd(s, i)
      [] stage = "code" -> InlineCodeEnd(s, i)
      [] stage = "bold" -> BoldEnd(s, i)
      [] stage = "italic" -> ItalicEnd(s, i)
      [] stage = "h3" -> LineEnd(s, i, <<"#", "#", "#", " ">>)
      [] stage = "h2" -> LineEnd(s, i, <<"#", "#", " ">>)
      [] stage = "h1" -> LineEnd(s, i, <<"#", " ">>)
      [] stage = "link" -> LinkEnd(s, i)
      [] stage = "li" -> LineEnd(s, i, <<"-", " ">>)
      [] stage = "ul" -> ListRunEnd(s, i)
      [] stage = "ol" -> OrderedEnd(s, i)
      [] stage = "quote" -> LineEnd(s, i, <<">", " ">>)
      [] stage = "para" -> LitEnd(s, i, <<"\n", "\n">>)
      [] stage = "br" -> LitEnd(s, i, <<"\n">>)

\* the replacement of a stage for its match at position i
Replacement(stage, s, i) ==
    CASE stage = "fence" -> FencedCodeRepl(s, i)
      [] stage = "code" -> InlineCodeRepl(s, i)
      [] stage = "bold" -> BoldRepl(s, i)
      [] stage = "italic" -> ItalicRepl(s, i)
      [] stage = "h3" -> LineRepl(s, i, <<"#", "#", "#", " ">>, H3Open, H3Close)
      [] stage = "h2" -> LineRepl(s, i, <<"#", "#", " ">>, H2Open, H2Close)
      [] stage = "h1" -> LineRepl(s, i, <<"#", " ">>, H1Open, H1Close)
      [] stage = "link" -> LinkRepl(s, i)
      [] stage = "li" -> LineRepl(s, i, <<"-", " ">>, LiOpen, LiClose)
      [] stage = "ul" -> ListRunRepl(s, i)
      [] stage = "ol" -> OrderedRepl(s, i)
      [] stage = "quote" -> LineRepl(s, i, <<">", " ">>, QuoteOpen, QuoteClose)
      [] stage = "para" -> ParaBreak
      [] stage = "br" -> LineBreak

\* html.replace(/re/g, replacement), scanning from position i: the text up to
\* the first position where the regular expression matches is copied, the match
\* is replaced, and the scan resumes after the match
RECURSIVE ReplaceFrom(_, _, _)
ReplaceFrom(stage, s, i) ==
    LET K == {k \in i..Len(s) : MatchEnd(stage, s, k) > 0}
    IN  IF K = {} THEN SubSeq(s, i, Len(s))
        ELSE SubSeq(s, i, Min(K) - 1) \o Replacement(stage, s, Min(K))
                 \o ReplaceFrom(stage, s, MatchEnd(stage, s, Min(K)) + 1)

ReplaceAll(stage, s) == ReplaceFrom(stage, s, 1)

FencedCode(s) == ReplaceAll("fence", s)

InlineCode(s) == ReplaceAll("code", s)

Emphasis(s) == ReplaceAll("italic", ReplaceAll("bold", s))

Headings(s) == ReplaceAll("h1", ReplaceAll("h2", ReplaceAll("h3", s)))

Links(s) == ReplaceAll("link", s)

UnorderedList(s) == ReplaceAll("ul", ReplaceAll("li", s))

OrderedList(s) == ReplaceAll("ol", s)

Blockquotes(s) == ReplaceAll("quote", s)

LineBreaks(s) == ReplaceAll("br", ReplaceAll("para", s))

WrapParagraph(s) ==
    IF ~StartsWith(s, <<"<">>) THEN POpen \o s \o PClose ELSE s

renderMarkdown(t) ==
    LET escaped == EscapeHtml(t)
        blocks == FencedCode(escaped)
        inline == InlineCode(blocks)
        emph == Emphasis(inline)
        heads == Headings(emph)
        links == Links(heads)
        lists == OrderedList(UnorderedList(links))
        quotes == Blockquotes(lists)
    IN  WrapParagraph(LineBreaks(quotes))

(***************************************************************************)
(* Input strings.                                                          *)
(***************************************************************************)
\* all strings over alphabet A of length lo..hi
Strings(A, lo, hi) == UNION {[1..n -> A] : n \in lo..hi}

\* the chat client at page load (the declarations of state and elements)
ChatInit ==
    /\ isLoading = FALSE
    /\ messages = <<>>
    /\ bubbles = <<>>
    /\ inputValue = <<>>
    /\ sendBtnDisabled = TRUE
    /\ inputDisabled = FALSE
    /\ overlayVisible = FALSE
    /\ welcomeHidden = FALSE
    /\ online = TRUE
    /\ toasts = <<>>
    /\ chatCalls = <<>>
    /\ resetCalls = [fetch |-> 0, json |-> 0]
    /\ healthCalls = [fetch |-> 0, json |-> 0]
    /\ sent = 0
    /\ lastSend = "none"

\* renderMarkdown is about to be called on t, assembled from the pieces ps
RenderInit(t, ps) ==
    /\ text = t
    /\ parts = ps
    /\ html = <<>>
    /\ phase = "input"
    /\ ChatInit

\* the call html = renderMarkdown(text)
Render ==
    /\ phase = "input"
    /\ html' = renderMarkdown(text)
    /\ phase' = "rendered"
    /\ UNCHANGED <<text, parts, chatVars>>

(***************************************************************************)
(* Reference notions the properties are stated with.                       *)
(***************************************************************************)
\* the HTML escape of one character
EscapeChar(c) ==
    CASE c = "&" -> AmpEntity
      [] c = "<" -> LtEntity
      [] c = ">" -> GtEntity
      [] OTHER -> <<c>>

\* a string with each of its characters escaped exactly once
EscapeChars(s) == Flatten([k \in 1..Len(s) |-> EscapeChar(s[k])])

\* the positions where the literal t occurs in s
Occurrences(s, t) == {k \in 1..Len(s) : LitAt(s, k, t)}

Contains(s, t) == Occurrences(s, t) # {}

HasChar(s, c) == \E k \in 1..Len(s) : s[k] = c

PreOpen == SubSeq(PreCodeOpen, 1, 5)

CodeLangOpen == SubSeq(PreCodeOpen, 6, Len(PreCodeOpen))

\* the tags the renderer writes that take no attribute
PlainTags ==
    {PreOpen, CodeOpen, CodeClose, SubSeq(PreCodeClose, 8, 13), StrongOpen,
     StrongClose, EmOpen, EmClose, H3Open, H3Close, H2Open, H2Close, H1Open,
     H1Close, AnchorClose, LiOpen, LiClose, UlOpen, UlClose, QuoteOpen,
     QuoteClose, POpen, PClose, LineBreak}

\* a '<' at position i opens a tag of the renderer
OpensTag(s, i) ==
    \E t \in PlainTags \cup {CodeLangOpen, AnchorOpen} : LitAt(s, i, t)

\* a '>' at position i closes a tag of the renderer: a plain tag, the anchor's
\* opening tag, or <code class="language-LANG"> with LANG a run of \w
ClosesTag(s, i) ==
    \/ \E t \in PlainTags \cup {AnchorMid} : LitAt(s, i - Len(t) + 1, t)
    \/ /\ LitAt(s, i - 1, PreCodeMid)
       /\ \E j \in 1..i :
            /\ LitAt(s, j, CodeLangOpen)
            /\ \A k \in (j + Len(CodeLangOpen))..(i - 2) : s[k] \in WordChars

\* an '&' at position i starts an entity of the renderer
StartsEntity(s, i) == \E e \in {AmpEntity, LtEntity, GtEntity} : LitAt(s, i, e)

(***************************************************************************)
(* C1: escaping.  Inputs are built from pieces that hold the three special *)
(* characters and the markers of the tag-producing stages.                 *)
(***************************************************************************)
MaxPieces == 4

SafetyPieces ==
    {<<"<">>, <<">">>, <<"&">>, Fence, <<"\n">>, <<"*">>, <<Backtick>>,
     <<"[", "&", "]", "(">>, <<")">>, <<"#", " ">>}

InitSafety ==
    \E ps \in Strings(SafetyPieces, 0, MaxPieces) : RenderInit(Flatten(ps), ps)

SpecSafety == InitSafety /\ [][Render]_vars

\* C1: in the output of renderMarkdown every '<' opens and every '>' closes a
\* tag written by the renderer, and every '&' starts one of the renderer's
\* entities &amp; &lt; &gt;: no '<', '>' or '&' of the input reaches the output
\* unescaped.
OutputEscaped ==
    phase = "rendered" =>
        \A i \in 1..Len(html) :
            /\ html[i] = "<" => OpensTag(html, i)
            /\ html[i] = ">" => ClosesTag(html, i)
            /\ html[i] = "&" => StartsEntity(html, i)

\* an input with '<', '>' and '&' whose output carries an anchor or a code block
OutputEscapedWitness ==
    /\ phase = "rendered"
    /\ HasChar(text, "<") /\ HasChar(text, ">") /\ HasChar(text, "&")
    /\ Contains(html, AnchorOpen) \/ Contains(html, PreOpen)

(***************************************************************************)
(* C8: text without Markdown syntax.                                       *)
(***************************************************************************)
MaxPlainLen == 4

PlainAlphabet == {"&", "<", ">", "a", ";", " ", "-", "#", "1", "."}

InitPlain == \E t \in Strings(PlainAlphabet, 0, MaxPlainLen) : RenderInit(t, <<t>>)

SpecPlain == InitPlain /\ [][Render]_vars

\* the input holds none of the renderer's Markdown syntax
NoMarkdownSyntax(t) ==
    /\ \A k \in 1..Len(t) : t[k] \notin {Backtick, "*", "[", "\n", "\r"}
    /\ ~LitAt(t, 1, <<"#">>)
    /\ ~LitAt(t, 1, <<"-", " ">>)
    /\ ~LitAt(t, 1, <<">", " ">>)
    /\ ~(RunEnd(t, 1, Digits) >= 1 /\ LitAt(t, RunEnd(t, 1, Digits) + 1, <<".", " ">>))

\* C8: for an input without Markdown syntax renderMarkdown returns
\* "<p>" + E + "</p>", E being the input with each '&', '<', '>' replaced once by
\* its entity; the empty input gives "<p></p>".
PlainTextWrapped ==
    phase = "rendered" /\ NoMarkdownSyntax(text) =>
        html = POpen \o EscapeChars(text) \o PClose

\* an input that mixes '&' and '<' (where the order of the replacements matters)
PlainTextWitness ==
    /\ phase = "rendered"
    /\ NoMarkdownSyntax(text)
    /\ HasChar(text, "&") /\ HasChar(text, "<") /\ HasChar(text, ";")

(***************************************************************************)
(* C7: bold before italic.  text = "**" + a + "** and *" + b + "*".        *)
(***************************************************************************)
MaxSpanLen == 2

SpanPieces ==
    {<<"x">>, <<" ">>, <<"<">>, <<"*">>, <<"[">>, <<"]", "(", "u", ")">>}

BoldAndItalic(a, b) ==
    <<"*", "*">> \o a \o <<"*", "*", " ", "a", "n", "d", " ", "*">> \o b \o <<"*">>

InitEmphasis ==
    \E pa \in Strings(SpanPieces, 1, MaxSpanLen) :
        \E pb \in Strings(SpanPieces, 1, MaxSpanLen) :
            RenderInit(BoldAndItalic(Flatten(pa), Flatten(pb)),
                       <<Flatten(pa), Flatten(pb)>>)

SpecEmphasis == InitEmphasis /\ [][Render]_vars

\* a and b are as C7 requires: no asterisk, backtick or newline
SpanTexts(a, b) ==
    \A k \in 1..Len(a \o b) : (a \o b)[k] \notin {"*", Backtick, "\n", "\r"}

\* C7: for non-empty a and b without asterisk, backtick or newline,
\* "**a** and *b*" renders to one <strong> span around a followed by one <em>
\* span around b (each text escaped and its links rendered), with no asterisk
\* left.
BoldThenItalicAnyText ==
    phase = "rendered" /\ SpanTexts(parts[1], parts[2]) =>
        html = StrongOpen \o Links(EscapeChars(parts[1])) \o StrongClose
                 \o <<" ", "a", "n", "d", " ">>
                 \o EmOpen \o Links(EscapeChars(parts[2])) \o EmClose

(***************************************************************************)
(* C5: links.  text = "[" + label + "](" + url + ")".                      *)
(***************************************************************************)
MaxLinkLen == 2

LinkAlphabet == {"x", "&", "\"", "]", ")"}

LinkText(label, url) == <<"[">> \o label \o <<"]", "(">> \o url \o <<")">>

InitLink ==
    \E label \in Strings(LinkAlphabet, 1, MaxLinkLen) :
        \E url \in Strings(LinkAlphabet, 1, MaxLinkLen) :
            RenderInit(LinkText(label, url), <<label, url>>)

SpecLink == InitLink /\ [][Render]_vars

\* the value of the href attribute of the anchor that opens the string: the
\* characters between href=" and the next double quote
HrefValue(s) ==
    SubSeq(s, Len(AnchorOpen) + 1, FindLit(s, Len(AnchorOpen) + 1, <<"\"">>) - 1)

\* C5: for a label without ']' and a url without ')', "[label](url)" renders
\* to exactly one anchor with target="_blank" and rel="noopener" whose content
\* is the label and whose href attribute value is the url.
LinkAnchorHrefIsUrl ==
    phase = "rendered" /\ ~HasChar(parts[1], "]") /\ ~HasChar(parts[2], ")") =>
        /\ html = AnchorOpen \o EscapeChars(parts[2]) \o AnchorMid
                    \o EscapeChars(parts[1]) \o AnchorClose
        /\ HrefValue(html) = EscapeChars(parts[2])

(***************************************************************************)
(* C2: blockquotes.                                                        *)
(***************************************************************************)
MaxQuoteLen == 5

QuoteAlphabet == {">", " ", "x", "\n"}

InitQuote == \E t \in Strings(QuoteAlphabet, 0, MaxQuoteLen) : RenderInit(t, <<t>>)

SpecQuote == InitQuote /\ [][Render]_vars

\* the positions where a line "> " + at least one character starts
QuoteLines(t) ==
    {i \in 1..Len(t) :
        /\ i = 1 \/ t[i - 1] = "\n"
        /\ LitAt(t, i, <<">", " ">>)
        /\ i + 2 <= Len(t)
        /\ t[i + 2] # "\n"}

\* C2: every line that begins with "> " followed by at least one character is
\* rendered as a <blockquote> element of its own holding the rest of the line.
BlockquotePerLine ==
    phase = "rendered" =>
        /\ Cardinality(Occurrences(html, QuoteOpen)) = Cardinality(QuoteLines(text))
        /\ \A i \in QuoteLines(text) :
             Contains(html,
                      QuoteOpen
                        \o EscapeChars(SubSeq(text, i + 2,
                                              RunEnd(text, i + 2, QuoteAlphabet \ {"\n"})))
                        \o QuoteClose)

(***************************************************************************)
(* C3: closed fenced code blocks.  text = "```" + lang + "\n" + body +     *)
(* "```", the body without backtick.                                       *)
(***************************************************************************)
MaxBodyLen == 4

BodyAlphabet == {"x", "\n", "*", "<", " "}

FencedText(lang, body) == Fence \o lang \o <<"\n">> \o body \o Fence

InitFence ==
    \E lang \in Strings({"j", "s"}, 0, 1) :
        \E body \in Strings(BodyAlphabet, 0, MaxBodyLen) :
            RenderInit(FencedText(lang, body), <<lang, body>>)

SpecFence == InitFence /\ [][Render]_vars

\* C3: the output for "```lang\nbody```" is the code block whose content is
\* the escaped, trimmed body: no later stage inserts a tag into it, and a blank
\* line of the body is not turned into "</p><p>".
CodeBlockVerbatim ==
    phase = "rendered" =>
        html = PreCodeOpen \o parts[1] \o PreCodeMid
                 \o Trim(EscapeChars(parts[2])) \o PreCodeClose

(***************************************************************************)
(* C4: unclosed fences.  text = before + "```" + after.                    *)
(***************************************************************************)
MaxAroundLen == 2

AroundAlphabet == {Backtick, "x", "\n", "*"}

InitUnclosed ==
    \E before \in Strings(AroundAlphabet, 0, MaxAroundLen) :
        \E after \in Strings(AroundAlphabet, 0, MaxAroundLen) :
            RenderInit(before \o Fence \o after, <<before, after>>)

SpecUnclosed == InitUnclosed /\ [][Render]_vars

\* the first ``` of t has no ``` after it
Unclosed(t) ==
    /\ FindLit(t, 1, Fence) > 0
    /\ FindLit(t, FindLit(t, 1, Fence) + 3, Fence) = 0

\* what C4 says of the output: the fenced-code stage matched nothing, there is
\* no <pre> block, and the three backticks are in the output
FenceLeftLiteral ==
    /\ FencedCode(EscapeHtml(text)) = EscapeHtml(text)
    /\ ~Contains(html, PreOpen)
    /\ Contains(html, Fence)

\* C4: when the opening fence has no closing fence after it, the
\* fenced-code stage does not match, no <pre> block is produced and the
\* fence's three backticks are left in the output, whatever text follows.
UnclosedFenceLiteralAnyText ==
    phase = "rendered" /\ Unclosed(text) => FenceLeftLiteral

(***************************************************************************)
(* C6: unordered lists.                                                    *)
(***************************************************************************)
MaxListLen == 7

ListAlphabet == {"-", " ", "x", "\n"}

InitList == \E t \in Strings(ListAlphabet, 0, MaxListLen) : RenderInit(t, <<t>>)

SpecList == InitList /\ [][Render]_vars

\* the lines of t, split at "\n"
RECURSIVE SplitLines(_)
SplitLines(t) ==
    IF FindLit(t, 1, <<"\n">>) = 0 THEN <<t>>
    ELSE <<SubSeq(t, 1, FindLit(t, 1, <<"\n">>) - 1)>>
             \o SplitLines(SubSeq(t, FindLit(t, 1, <<"\n">>) + 1, Len(t)))

\* the maximal runs of marked lines from line k on, each run as the sequence
\* of the escaped texts that follow "- " on its lines
RECURSIVE RunsFrom(_, _, _)
RunsFrom(lines, marked, k) ==
    IF k > Len(lines) THEN <<>>
    ELSE IF ~marked[k] THEN RunsFrom(lines, marked, k + 1)
    ELSE LET K == {j \in k..Len(lines) : ~marked[j]}
             e == IF K = {} THEN Len(lines) ELSE Min(K) - 1
         IN  <<[j \in 1..(e - k + 1) |->
                    EscapeChars(SubSeq(lines[k + j - 1], 3, Len(lines[k + j - 1])))]>>
                 \o RunsFrom(lines, marked, e + 1)

\* the runs of consecutive lines that begin with "- "
BulletRuns(t) ==
    LET lines == SplitLines(t)
    IN  RunsFrom(lines, [k \in 1..Len(lines) |-> LitAt(lines[k], 1, <<"-", " ">>)], 1)

\* the runs of consecutive lines that begin with "- " and one more character
ItemRuns(t) ==
    LET lines == SplitLines(t)
    IN  RunsFrom(lines,
                 [k \in 1..Len(lines) |->
                     LitAt(lines[k], 1, <<"-", " ">>) /\ Len(lines[k]) > 2], 1)

\* the elements of a finite set of numbers, ascending
RECURSIVE Ascending(_)
Ascending(S) ==
    IF S = {} THEN <<>> ELSE <<Min(S)>> \o Ascending(S \ {Min(S)})

\* the <ul> containers of s in order, each as the sequence of the contents of
\* its <li> items
UlContainers(s) ==
    LET opens == Ascending(Occurrences(s, UlOpen))
        items(u) ==
            Ascending({p \in Occurrences(s, LiOpen) :
                          p > u /\ p < FindLit(s, u, UlClose)})
    IN  [n \in 1..Len(opens) |->
            [m \in 1..Len(items(opens[n])) |->
                SubSeq(s, items(opens[n])[m] + Len(LiOpen),
                       FindLit(s, items(opens[n])[m], LiClose) - 1)]]

\* every <li> of s lies in a <ul> container
NoStrayItem(s) ==
    \A p \in Occurrences(s, LiOpen) :
        \E u \in Occurrences(s, UlOpen) : u < p /\ p < FindLit(s, u, UlClose)

MaxSends == 2

MaxPending == 1

MaxToasts == 1

\* what the user may type into the textarea
TypedValues == {<<>>, <<" ">>, <<"h", "i", " ">>}

\* card.dataset.message of a suggestion card
CardMessage == <<"h", "e", "l", "p">>

\* the value undefined (a reply without a response string)
Undefined == <<"undefined">>

\* data.response of a successful chat reply
Responses == {<<"*", "o", "k", "*">>, Undefined}

\* removal of element k of a sequence
Remove(q, k) == SubSeq(q, 1, k - 1) \o SubSeq(q, k + 1, Len(q))

\* showToast(message, type): the toast is appended to the container
showToast(type) == toasts' = Append(toasts, type)

\* setLoading(loading), the textarea holding value
setLoading(loading, value) ==
    /\ isLoading' = loading
    /\ overlayVisible' = loading
    /\ sendBtnDisabled' = (loading \/ Trim(value) = <<>>)
    /\ inputDisabled' = loading

\* addMessage(role, content); renderedContent is
\* role === 'assistant' ? renderMarkdown(content) : content
addMessage(role, content, renderedContent) ==
    /\ welcomeHidden' = TRUE
    /\ messages' = Append(messages, [role |-> role, content |-> content])
    /\ bubbles' = Append(bubbles, [role |-> role, html |-> renderedContent])

\* a faulty guard: if (!message) return;
SendGuardWithoutLoading == Trim(inputValue) # <<>>

\* if (!message || state.isLoading) return;
SendGuard == Trim(inputValue) # <<>> /\ ~isLoading

\* sendMessage up to its first await
sendMessage ==
    IF ~SendGuard
    THEN /\ lastSend' = "returned"
         /\ UNCHANGED <<isLoading, messages, bubbles, inputValue, sendBtnDisabled,
                        inputDisabled, overlayVisible, welcomeHidden, online,
                        toasts, chatCalls, resetCalls, healthCalls, sent>>
    ELSE /\ sent < MaxSends
         /\ inputValue' = <<>>
         /\ addMessage("user", Trim(inputValue), Trim(inputValue))
         /\ setLoading(TRUE, <<>>)
         /\ chatCalls' = Append(chatCalls, [at |-> "fetch", message |-> Trim(inputValue)])
         /\ sent' = sent + 1
         /\ lastSend' = "sent"
         /\ UNCHANGED <<online, toasts, resetCalls, healthCalls>>

\* click on elements.sendBtn
ClickSend ==
    /\ ~sendBtnDisabled
    /\ sendMessage
    /\ UNCHANGED renderVars

\* keydown of Enter without Shift in elements.messageInput
PressEnter ==
    /\ ~inputDisabled
    /\ sendMessage
    /\ UNCHANGED renderVars

\* the 'input' event of elements.messageInput
TypeInput ==
    /\ ~inputDisabled
    /\ \E v \in TypedValues :
         /\ inputValue' = v
         /\ sendBtnDisabled' = (Trim(v) = <<>> \/ isLoading)
    /\ UNCHANGED <<renderVars, isLoading, messages, bubbles, inputDisabled,
                   overlayVisible, welcomeHidden, online, toasts, chatCalls,
                   resetCalls, healthCalls, sent, lastSend>>

\* click on a suggestion card
ClickSuggestion ==
    /\ inputValue' = CardMessage
    /\ sendBtnDisabled' = FALSE
    /\ UNCHANGED <<renderVars, isLoading, messages, bubbles, inputDisabled,
                   overlayVisible, welcomeHidden, online, toasts, chatCalls,
                   resetCalls, healthCalls, sent, lastSend>>

\* sendMessage: fetch('/api/chat') resolves, response.json() is awaited
ChatFetchResolve ==
    /\ \E k \in 1..Len(chatCalls) :
         /\ chatCalls[k].at = "fetch"
         /\ chatCalls' = [chatCalls EXCEPT ![k].at = "json"]
    /\ UNCHANGED <<renderVars, isLoading, messages, bubbles, inputValue,
                   sendBtnDisabled, inputDisabled, overlayVisible, welcomeHidden,
                   online, toasts, resetCalls, healthCalls, sent, lastSend>>

\* sendMessage: fetch or response.json() rejects: catch, then finally
ChatReject ==
    /\ Len(toasts) < MaxToasts
    /\ \E k \in 1..Len(chatCalls) : chatCalls' = Remove(chatCalls, k)
    /\ showToast("error")
    /\ online' = FALSE
    /\ setLoading(FALSE, inputValue)
    /\ UNCHANGED <<renderVars, messages, bubbles, inputValue, welcomeHidden,
                   resetCalls, healthCalls, sent, lastSend>>

\* sendMessage: response.json() resolves with data.success true and a
\* response string
ChatReply ==
    /\ \E k \in 1..Len(chatCalls) :
         /\ chatCalls[k].at = "json"
         /\ chatCalls' = Remove(chatCalls, k)
    /\ \E r \in Responses \ {Undefined} : addMessage("assistant", r, renderMarkdown(r))
    /\ setLoading(FALSE, inputValue)
    /\ UNCHANGED <<renderVars, inputValue, online, toasts, resetCalls,
                   healthCalls, sent, lastSend>>

\* sendMessage: data.success true without a response string: addMessage
\* pushes the entry, renderMarkdown throws on text.replace; catch, then finally
ChatReplyUndefined ==
    /\ Len(toasts) < MaxToasts
    /\ \E k \in 1..Len(chatCalls) :
         /\ chatCalls[k].at = "json"
         /\ chatCalls' = Remove(chatCalls, k)
    /\ welcomeHidden' = TRUE
    /\ messages' = Append(messages, [role |-> "assistant", content |-> Undefined])
    /\ showToast("error")
    /\ online' = FALSE
    /\ setLoading(FALSE, inputValue)
    /\ UNCHANGED <<renderVars, bubbles, inputValue, resetCalls, healthCalls,
                   sent, lastSend>>

\* sendMessage: data.success false
ChatRefused ==
    /\ Len(toasts) < MaxToasts
    /\ \E k \in 1..Len(chatCalls) :
         /\ chatCalls[k].at = "json"
         /\ chatCalls' = Remove(chatCalls, k)
    /\ showToast("error")
    /\ setLoading(FALSE, inputValue)
    /\ UNCHANGED <<renderVars, messages, bubbles, inputValue, welcomeHidden,
                   online, resetCalls, healthCalls, sent, lastSend>>

\* click on elements.newChatBtn: resetChat up to await fetch('/api/reset')
ClickNewChat ==
    /\ resetCalls.fetch + resetCalls.json < MaxPending
    /\ resetCalls' = [resetCalls EXCEPT !.fetch = @ + 1]
    /\ UNCHANGED <<renderVars, isLoading, messages, bubbles, inputValue,
                   sendBtnDisabled, inputDisabled, overlayVisible, welcomeHidden,
                   online, toasts, chatCalls, healthCalls, sent, lastSend>>

\* resetChat: fetch resolves, response.json() is awaited
ResetFetchResolve ==
    /\ resetCalls.fetch > 0
    /\ resetCalls' = [fetch |-> resetCalls.fetch - 1, json |-> resetCalls.json + 1]
    /\ UNCHANGED <<renderVars, isLoading, messages, bubbles, inputValue,
                   sendBtnDisabled, inputDisabled, overlayVisible, welcomeHidden,
                   online, toasts, chatCalls, healthCalls, sent, lastSend>>

\* resetChat: data.success true
ResetDone ==
    /\ Len(toasts) < MaxToasts
    /\ resetCalls.json > 0
    /\ resetCalls' = [resetCalls EXCEPT !.json = @ - 1]
    /\ messages' = <<>>
    /\ bubbles' = <<>>
    /\ welcomeHidden' = FALSE
    /\ showToast("success")
    /\ UNCHANGED <<renderVars, isLoading, inputValue, sendBtnDisabled,
                   inputDisabled, overlayVisible, online, chatCalls, healthCalls,
                   sent, lastSend>>

\* resetChat: data.success false, or fetch or response.json() rejects
ResetFailed ==
    /\ Len(toasts) < MaxToasts
    /\ \E at \in {"fetch", "json"} :
         /\ resetCalls[at] > 0
         /\ resetCalls' = [resetCalls EXCEPT ![at] = @ - 1]
    /\ showToast("error")
    /\ UNCHANGED <<renderVars, isLoading, messages, bubbles, inputValue,
                   sendBtnDisabled, inputDisabled, overlayVisible, welcomeHidden,
                   online, chatCalls, healthCalls, sent, lastSend>>

\* DOMContentLoaded, the 30 s interval or visibilitychange: checkHealth up to
\* await fetch('/api/health')
HealthStart ==
    /\ healthCalls.fetch + healthCalls.json < MaxPending
    /\ healthCalls' = [healthCalls EXCEPT !.fetch = @ + 1]
    /\ UNCHANGED <<renderVars, isLoading, messages, bubbles, inputValue,
                   sendBtnDisabled, inputDisabled, overlayVisible, welcomeHidden,
                   online, toasts, chatCalls, resetCalls, sent, lastSend>>

\* checkHealth: fetch resolves, response.json() is awaited
HealthFetchResolve ==
    /\ healthCalls.fetch > 0
    /\ healthCalls' = [fetch |-> healthCalls.fetch - 1, json |-> healthCalls.json + 1]
    /\ UNCHANGED <<renderVars, isLoading, messages, bubbles, inputValue,
                   sendBtnDisabled, inputDisabled, overlayVisible, welcomeHidden,
                   online, toasts, chatCalls, resetCalls, sent, lastSend>>

\* checkHealth: updateStatus(data.status === 'ok')
HealthDone ==
    /\ healthCalls.json > 0
    /\ healthCalls' = [healthCalls EXCEPT !.json = @ - 1]
    /\ online' \in BOOLEAN
    /\ UNCHANGED <<renderVars, isLoading, messages, bubbles, inputValue,
                   sendBtnDisabled, inputDisabled, overlayVisible, welcomeHidden,
                   toasts, chatCalls, resetCalls, sent, lastSend>>

\* checkHealth: fetch or response.json() rejects: updateStatus(false)
HealthFailed ==
    /\ \E at \in {"fetch", "json"} :
         /\ healthCalls[at] > 0
         /\ healthCalls' = [healthCalls EXCEPT ![at] = @ - 1]
    /\ online' = FALSE
    /\ UNCHANGED <<renderVars, isLoading, messages, bubbles, inputValue,
                   sendBtnDisabled, inputDisabled, overlayVisible, welcomeHidden,
                   toasts, chatCalls, resetCalls, sent, lastSend>>

\* showToast's timers: the oldest toast is removed
ToastExpire ==
    /\ toasts # <<>>
    /\ toasts' = Tail(toasts)
    /\ UNCHANGED <<renderVars, isLoading, messages, bubbles, inputValue,
                   sendBtnDisabled, inputDisabled, overlayVisible, welcomeHidden,
                   online, chatCalls, resetCalls, healthCalls, sent, lastSend>>

Init ==
    /\ text = <<>>
    /\ html = <<>>
    /\ phase = "idle"
    /\ parts = <<>>
    /\ ChatInit

Next ==
    \/ ClickSend
    \/ PressEnter
    \/ TypeInput
    \/ ClickSuggestion
    \/ ChatFetchResolve
    \/ ChatReject
    \/ ChatReply
    \/ ChatReplyUndefined
    \/ ChatRefused
    \/ ClickNewChat
    \/ ResetFetchResolve
    \/ ResetDone
    \/ ResetFailed
    \/ HealthStart
    \/ HealthFetchResolve
    \/ HealthDone
    \/ HealthFailed
    \/ ToastExpire

Spec == Init /\ [][Next]_vars

\* C9: at most one /api/chat request is outstanding, state.isLoading is true
\* exactly while one is, and a sendMessage call made while state.isLoading is
\* true adds no message and issues no request.
SingleChatRequest ==
    /\ [](Len(chatCalls) <= 1 /\ (isLoading <=> Len(chatCalls) = 1))
    /\ [][isLoading /\ (ClickSend \/ PressEnter)
            => UNCHANGED <<messages, bubbles, chatCalls, isLoading>>]_vars

\* sendMessage was called while a request was outstanding and returned
SingleChatRequestWitness ==
    /\ isLoading
    /\ Len(chatCalls) = 1
    /\ lastSend = "returned"
    /\ inputValue = CardMessage

\* C10: state.messages never begins with an assistant entry: every assistant
\* entry has a user entry before it.
AssistantAfterUser ==
    messages # <<>> => messages[1].role = "user"

====
